---- MODULE Spec2Model ----
(***************************************************************************)
(* Configuration derivation (anomalib/config/config.py) and callback       *)
(* assembly (anomalib/utils/callbacks/__init__.py).                        *)
(*                                                                         *)
(* A configuration document (an OmegaConf DictConfig) is modelled as a     *)
(* function from key paths to leaf values: the path                        *)
(* <<"dataset", "tiling", "stride">> is config.dataset.tiling.stride.  A   *)
(* section is present when some leaf lies below it.  Leaf values are       *)
(* records of one shape, so that any two of them can be compared.  Text is *)
(* a sequence of one-character strings, so that str.lower() is computed.   *)
(***************************************************************************)
EXTENDS Integers, Sequences, FiniteSets, TLC

VARIABLES
    config,     \* the caller's document: config = update_...(config)
    arg,        \* the arguments of the last call, as they were passed
    mutated,    \* the document passed to the last call, as the call left it
    callbacks,  \* the list get_callbacks built, up to its return or raise
    op,         \* the function called last
    exc,        \* the exception the last call raised ("none": it returned)
    stage,      \* the step of the last call that raised
    strict,     \* OmegaConf raises on a missing key instead of yielding None
    cuda,       \* torch.cuda.is_available()
    calls       \* the number of calls made

vars == <<config, arg, mutated, callbacks, op, exc, stage, strict, cuda, calls>>

(* ------------------------------ bounds --------------------------------- *)
MaxSize == 2    \* image and tile sizes range over 1..MaxSize
MaxGpus == 2    \* trainer.gpus ranges over 0..MaxGpus and lists of 1..MaxGpus ids
MaxLr == 2      \* model.lr ranges over 1..MaxLr (in units of the base rate)
MaxCalls == 2   \* calls made on one document

(* ------------------------------ values --------------------------------- *)
Null == [kind |-> "null", n |-> 0, xs |-> <<>>, s |-> <<>>, ss |-> <<>>]
Int_(k) == [kind |-> "int", n |-> k, xs |-> <<>>, s |-> <<>>, ss |-> <<>>]
Bool_(b) == [kind |-> "bool", n |-> IF b THEN 1 ELSE 0, xs |-> <<>>, s |-> <<>>, ss |-> <<>>]
Str_(t) == [kind |-> "str", n |-> 0, xs |-> <<>>, s |-> t, ss |-> <<>>]
IntList(l) == [kind |-> "list", n |-> 0, xs |-> l, s |-> <<>>, ss |-> <<>>]
StrList(l) == [kind |-> "list", n |-> 0, xs |-> <<>>, s |-> <<>>, ss |-> l]

IsInt(v) == v.kind = "int"
IsNone(v) == v.kind = "null"
\* Python truth value of a leaf
Truthy(v) ==
    CASE v.kind = "null" -> FALSE
      [] v.kind = "int" -> v.n # 0
      [] v.kind = "bool" -> v.n = 1
      [] v.kind = "str" -> Len(v.s) > 0
      [] OTHER -> Len(v.xs) + Len(v.ss) > 0

(* ------------------------------- text ---------------------------------- *)
UpperCase == <<"A", "B", "C", "D", "E", "F", "G", "H", "I", "J", "K", "L", "M",
               "N", "O", "P", "Q", "R", "S", "T", "U", "V", "W", "X", "Y", "Z">>
LowerCase == <<"a", "b", "c", "d", "e", "f", "g", "h", "i", "j", "k", "l", "m",
               "n", "o", "p", "q", "r", "s", "t", "u", "v", "w", "x", "y", "z">>
LowerChar(c) ==
    IF \E i \in DOMAIN UpperCase : UpperCase[i] = c
    THEN LowerCase[CHOOSE i \in DOMAIN UpperCase : UpperCase[i] = c]
    ELSE c
\* str.lower()
Lower(t) == [i \in 1..Len(t) |-> LowerChar(t[i])]

T_ddp == <<"d", "d", "p">>
T_dp == <<"d", "p">>
T_ddp_spawn == <<"d", "d", "p", "_", "s", "p", "a", "w", "n">>
T_ddp2 == <<"d", "d", "p", "2">>
T_none == <<"n", "o", "n", "e">>
T_cdf == <<"c", "d", "f">>
T_min_max == <<"m", "i", "n", "_", "m", "a", "x">>
T_padim == <<"p", "a", "d", "i", "m">>
T_stfpm == <<"s", "t", "f", "p", "m">>
T_dfm == <<"d", "f", "m">>
T_CDF == <<"C", "D", "F">>
T_local == <<"l", "o", "c", "a", "l">>

(* ------------------------------- paths --------------------------------- *)
P_image_size == <<"dataset", "image_size">>
P_tiling == <<"dataset", "tiling">>
P_tiling_apply == <<"dataset", "tiling", "apply">>
P_tile_size == <<"dataset", "tiling", "tile_size">>
P_stride == <<"dataset", "tiling", "stride">>
P_model == <<"model">>
P_name == <<"model", "name">>
P_input_size == <<"model", "input_size">>
P_lr == <<"model", "lr">>
P_weight_file == <<"model", "weight_file">>
P_normalization_method == <<"model", "normalization_method">>
P_trainer == <<"trainer">>
P_accelerator == <<"trainer", "accelerator">>
P_gpus == <<"trainer", "gpus">>
P_max_epochs == <<"trainer", "max_epochs">>
P_log_images_to == <<"project", "log_images_to">>
P_save_to_csv == <<"project", "save_to_csv">>
P_optimization == <<"optimization">>
P_nncf == <<"optimization", "nncf">>
P_nncf_apply == <<"optimization", "nncf", "apply">>
P_sample_size == <<"optimization", "nncf", "input_info", "sample_size">>
P_update_config == <<"optimization", "nncf", "update_config">>
P_compression_apply == <<"optimization", "compression", "apply">>
P_openvino == <<"openvino">>

(* ------------------------- document access ----------------------------- *)
IsPrefix(p, q) == Len(p) <= Len(q) /\ SubSeq(q, 1, Len(p)) = p

\* "key" in config.section.keys(): the key is a leaf or a section with leaves
Has(cfg, p) == \E q \in DOMAIN cfg : IsPrefix(p, q)

\* the first step of the attribute chain p that names a missing key (0: none)
MissingAt(cfg, p) ==
    IF \A i \in 1..Len(p) : Has(cfg, SubSeq(p, 1, i))
    THEN 0
    ELSE CHOOSE i \in 1..Len(p) :
            /\ ~Has(cfg, SubSeq(p, 1, i))
            /\ \A j \in 1..(i - 1) : Has(cfg, SubSeq(p, 1, j))

\* What reading the attribute chain config.a.b.c raises.  OmegaConf either
\* raises on a missing key (strict) or yields None for it; an attribute of
\* None is an AttributeError.
ReadExc(cfg, p, st) ==
    LET i == MissingAt(cfg, p)
    IN  IF i = 0 THEN "none"
        ELSE IF st THEN "ConfigAttributeError"
        ELSE IF i = Len(p) THEN "none"
        ELSE "AttributeError"

\* the value the attribute chain yields when it raises nothing
Read(cfg, p) == IF p \in DOMAIN cfg THEN cfg[p] ELSE Null

\* config.a.b = v
Set(cfg, p, v) == (p :> v) @@ cfg

\* the sub-document below p, as a document of its own
Sub(cfg, p) ==
    [q \in {SubSeq(r, Len(p) + 1, Len(r)) : r \in {r \in DOMAIN cfg : IsPrefix(p, r) /\ Len(r) > Len(p)}}
        |-> cfg[p \o q]]

\* OmegaConf.merge(a, b): sections merge key by key, b's leaves win
Merge(a, b) == b @@ a

NoConfig == [q \in {} |-> Null]
NoArg == [config |-> NoConfig, openvino |-> FALSE]

\* the result of a call: the document as mutated in place, the value
\* returned, the exception raised and the step that raised it
Result(cfg, r, e, st) == [cfg |-> cfg, ret |-> r, exc |-> e, stage |-> st]
Returns(cfg, r) == Result(cfg, r, "none", "none")
\* What the assignment config.a.b = v raises: the chain up to the last key
\* is read first, and None takes no attribute.
SetExc(cfg, p, st) ==
    IF MissingAt(cfg, SubSeq(p, 1, Len(p) - 1)) = 0 THEN "none"
    ELSE IF st THEN "ConfigAttributeError"
    ELSE "AttributeError"
Raises(cfg, e, st) == Result(cfg, NoConfig, e, st)

(* --------------------- update_input_size_config ------------------------ *)
Twice(v) == IntList(<<v.n, v.n>>)

\* the stride taken from the tile size before the tile size is converted
update_input_size_config_stride_first(cfg) ==
    LET c1 == IF IsInt(Read(cfg, P_image_size))
              THEN Set(cfg, P_image_size, Twice(Read(cfg, P_image_size)))
              ELSE cfg
        c2 == Set(c1, P_input_size, Read(c1, P_image_size))
        c3 == IF IsNone(Read(c2, P_stride))
              THEN Set(c2, P_stride, Read(c2, P_tile_size))
              ELSE c2
        c4 == IF IsInt(Read(c3, P_tile_size))
              THEN Set(c3, P_tile_size, Twice(Read(c3, P_tile_size)))
              ELSE c3
    IN  IF Has(c2, P_tiling) /\ Truthy(Read(c2, P_tiling_apply))
        THEN Returns(c4, c4)
        ELSE Returns(c2, c2)

update_input_size_config(cfg) ==
    LET c1 == IF IsInt(Read(cfg, P_image_size))
              THEN Set(cfg, P_image_size, Twice(Read(cfg, P_image_size)))
              ELSE cfg
        c2 == Set(c1, P_input_size, Read(c1, P_image_size))
        c3 == IF IsInt(Read(c2, P_tile_size))
              THEN Set(c2, P_tile_size, Twice(Read(c2, P_tile_size)))
              ELSE c2
        c4 == IF IsNone(Read(c3, P_stride))
              THEN Set(c3, P_stride, Read(c3, P_tile_size))
              ELSE c3
    IN  IF Has(c2, P_tiling) /\ Truthy(Read(c2, P_tiling_apply))
        THEN Returns(c4, c4)
        ELSE Returns(c2, c2)

(* ------------------------- update_nncf_config -------------------------- *)
\* lines 64-65
sample_size(cfg) ==
    LET crop_size == Read(cfg, P_image_size)
    IN  IF IsInt(crop_size) THEN <<crop_size.n, crop_size.n>> ELSE crop_size.xs

\* the sample size set only for a run that applies NNCF
update_nncf_config_when_applied(cfg) ==
    LET c1 == Set(cfg, P_sample_size, IntList(<<1, 3>> \o sample_size(cfg)))
    IN  IF Has(cfg, P_optimization) /\ Has(cfg, P_nncf) /\ Truthy(Read(cfg, P_nncf_apply))
        THEN IF Has(c1, P_update_config)
             THEN Result(c1, Merge(c1, Sub(c1, P_update_config)), "none", "none")
             ELSE Returns(c1, c1)
        ELSE Returns(cfg, cfg)

update_nncf_config(cfg) ==
    LET c1 == Set(cfg, P_sample_size, IntList(<<1, 3>> \o sample_size(cfg)))
    IN  IF Has(cfg, P_optimization) /\ Has(cfg, P_nncf)
        THEN IF Truthy(Read(c1, P_nncf_apply)) /\ Has(c1, P_update_config)
             THEN Result(c1, Merge(c1, Sub(c1, P_update_config)), "none", "none")
             ELSE Returns(c1, c1)
        ELSE Returns(cfg, cfg)

(* ------------------ update_multi_gpu_training_config ------------------- *)
\* len() of a list or of a str
PyLen(v) == Len(v.xs) + Len(v.ss) + Len(v.s)

\* the learning rate scaled by an integer gpus only, a list counted as one
scale_lr_int_only(cfg) ==
    LET n_gpus == IF Has(cfg, P_trainer) /\ Has(cfg, P_gpus)
                  THEN Read(cfg, P_gpus)
                  ELSE Int_(1)
        lr == Read(cfg, P_lr).n
        k == IF IsInt(n_gpus) THEN n_gpus.n ELSE 1
    IN  IF ~Has(cfg, P_lr) THEN Returns(cfg, cfg)
        ELSE IF IsNone(n_gpus) THEN Raises(cfg, "TypeError", "lr_scaler")
        ELSE Returns(Set(cfg, P_lr, Int_(lr * k)), Set(cfg, P_lr, Int_(lr * k)))

\* lines 114-121: scale the learning rate by the number of devices
scale_lr(cfg) ==
    LET n_gpus == IF Has(cfg, P_trainer) /\ Has(cfg, P_gpus)
                  THEN Read(cfg, P_gpus)
                  ELSE Int_(1)
        lr == Read(cfg, P_lr).n
    IN  IF ~Has(cfg, P_lr) THEN Returns(cfg, cfg)
        ELSE IF IsInt(n_gpus)
        THEN Returns(Set(cfg, P_lr, Int_(lr * n_gpus.n)), Set(cfg, P_lr, Int_(lr * n_gpus.n)))
        ELSE IF IsNone(n_gpus) THEN Raises(cfg, "TypeError", "lr_scaler")
        ELSE Returns(Set(cfg, P_lr, Int_(lr * PyLen(n_gpus))),
                     Set(cfg, P_lr, Int_(lr * PyLen(n_gpus))))

\* the accelerator compared as written, without lower()
update_multi_gpu_training_config_case_sensitive(cfg, st) ==
    LET acc == Read(cfg, P_accelerator)
    IN  IF ReadExc(cfg, P_accelerator, st) # "none"
        THEN Raises(cfg, ReadExc(cfg, P_accelerator, st), "accelerator")
        ELSE IF ~IsNone(acc) /\ acc.s # T_ddp
        THEN IF acc.s \notin {T_dp, T_ddp_spawn, T_ddp2}
             THEN Raises(cfg, "ValueError", "accelerator")
             ELSE scale_lr(Set(cfg, P_accelerator, Str_(T_ddp)))
        ELSE scale_lr(cfg)

update_multi_gpu_training_config(cfg, st) ==
    LET acc == Read(cfg, P_accelerator)
    IN  IF ReadExc(cfg, P_accelerator, st) # "none"
        THEN Raises(cfg, ReadExc(cfg, P_accelerator, st), "accelerator")
        ELSE IF ~IsNone(acc) /\ Lower(acc.s) # T_ddp
        THEN IF Lower(acc.s) \notin {T_dp, T_ddp_spawn, T_ddp2}
             THEN Raises(cfg, "ValueError", "accelerator")
             ELSE scale_lr(Set(cfg, P_accelerator, Str_(T_ddp)))
        ELSE scale_lr(cfg)

(* ------------------------ update_device_config ------------------------- *)
\* lines 135-143: the device selection before the learning rate is scaled
select_device(cfg, openvino, cudaAvailable, st) ==
    LET c1 == Set(cfg, P_openvino, Bool_(openvino))
        c2 == IF openvino THEN Set(c1, P_gpus, Int_(0)) ELSE c1
        c3 == IF ~cudaAvailable THEN Set(c2, P_gpus, Int_(0)) ELSE c2
        c4 == IF Read(c3, P_gpus) = Int_(0) /\ cudaAvailable
              THEN Set(c3, P_gpus, Int_(1))
              ELSE c3
    IN  IF (openvino \/ ~cudaAvailable) /\ SetExc(c1, P_gpus, st) # "none"
        THEN Raises(c1, SetExc(c1, P_gpus, st), "gpus")
        ELSE IF ReadExc(c3, P_gpus, st) # "none"
        THEN Raises(c3, ReadExc(c3, P_gpus, st), "gpus")
        ELSE Returns(c4, c4)

update_device_config(cfg, openvino, cudaAvailable, st) ==
    LET d == select_device(cfg, openvino, cudaAvailable, st)
    IN  IF d.exc # "none" THEN d
        ELSE update_multi_gpu_training_config(d.cfg, st)

(* ---------------------------- get_callbacks --------------------------- *)
\* the list built so far, the exception raised and the step that raised it
Built(cbs) == [callbacks |-> cbs, exc |-> "none", stage |-> "none"]
Failed(cbs, e, st) == [callbacks |-> cbs, exc |-> e, stage |-> st]
Then(prev, next) == IF prev.exc # "none" THEN prev ELSE next

\* lines 63-67
load_model_step(cfg) ==
    IF Has(cfg, P_weight_file)
    THEN Built(<<"ModelCheckpoint", "TimerCallback", "LoadModelCallback">>)
    ELSE Built(<<"ModelCheckpoint", "TimerCallback">>)

\* lines 69-83
normalization_step(cfg, cbs, st) ==
    LET method == Read(cfg, P_normalization_method)
    IN  IF Has(cfg, P_normalization_method) /\ method # Str_(T_none)
        THEN IF method = Str_(T_cdf)
             THEN IF Read(cfg, P_name) \notin {Str_(T_padim), Str_(T_stfpm)}
                  THEN Failed(cbs, "NotImplementedError", "normalization")
                  ELSE IF ReadExc(cfg, P_nncf_apply, st) # "none"
                  THEN Failed(cbs, ReadExc(cfg, P_nncf_apply, st), "normalization")
                  ELSE IF ~Truthy(Read(cfg, P_nncf_apply))
                  THEN Built(Append(cbs, "CdfNormalizationCallback"))
                  ELSE Failed(cbs, "NotImplementedError", "normalization")
             ELSE IF method = Str_(T_min_max)
             THEN Built(Append(cbs, "MinMaxNormalizationCallback"))
             ELSE Failed(cbs, "ValueError", "normalization")
        ELSE Built(cbs)

\* lines 85-91
visualizer_step(cfg, cbs, st) ==
    IF Read(cfg, P_log_images_to) # StrList(<<>>)
    THEN IF ReadExc(cfg, P_normalization_method, st) # "none"
         THEN Failed(cbs, ReadExc(cfg, P_normalization_method, st), "visualizer")
         ELSE Built(Append(cbs, "VisualizerCallback"))
    ELSE Built(cbs)

\* lines 93-113
optimization_step(cfg, cbs, st) ==
    LET c1 == IF Truthy(Read(cfg, P_nncf_apply)) THEN Append(cbs, "NNCFCallback") ELSE cbs
        c2 == IF Truthy(Read(cfg, P_compression_apply))
              THEN Append(c1, "CompressModelCallback")
              ELSE c1
    IN  IF Has(cfg, P_optimization)
        THEN IF ReadExc(cfg, P_nncf_apply, st) # "none"
             THEN Failed(cbs, ReadExc(cfg, P_nncf_apply, st), "optimization")
             ELSE Built(c2)
        ELSE Built(cbs)

\* the callback added for the key alone, whatever its value
save_to_csv_step_key_only(cfg, cbs) ==
    IF Has(cfg, P_save_to_csv)
    THEN Built(Append(cbs, "SaveToCSVCallback"))
    ELSE Built(cbs)

\* lines 115-116
save_to_csv_step(cfg, cbs) ==
    IF Has(cfg, P_save_to_csv) /\ Truthy(Read(cfg, P_save_to_csv))
    THEN Built(Append(cbs, "SaveToCSVCallback"))
    ELSE Built(cbs)

get_callbacks(cfg, st) ==
    LET s1 == load_model_step(cfg)
        s2 == normalization_step(cfg, s1.callbacks, st)
        s3 == Then(s2, visualizer_step(cfg, s2.callbacks, st))
        s4 == Then(s3, optimization_step(cfg, s3.callbacks, st))
    IN  Then(s4, save_to_csv_step(cfg, s4.callbacks))

(* ------------------------------ documents ------------------------------ *)
Sizes == {Int_(k) : k \in 1..MaxSize}
        \cup {IntList(<<h, w>>) : h \in 1..MaxSize, w \in 1..MaxSize}

\* keys the code reads without testing for them are always there
NoTrainerConfig ==
    (P_image_size :> Int_(1)) @@ (P_name :> Str_(T_padim))
    @@ (P_log_images_to :> StrList(<<>>))
BaseConfig == (P_accelerator :> Null) @@ NoTrainerConfig

One(p, vals) == {p :> v : v \in vals}
Opt(docs) == docs \cup {NoConfig}
Both(A, B) == {a @@ b : a \in A, b \in B}

TilingDocs ==
    Both(One(P_tiling_apply, {Bool_(TRUE), Bool_(FALSE)}),
         Both(One(P_tile_size, Sizes), One(P_stride, Sizes \cup {Null})))

InputSizeConfigs ==
    {d @@ BaseConfig : d \in Both(One(P_image_size, Sizes), Opt(TilingDocs))}

T_DDP == <<"D", "D", "P">>
T_Dp == <<"D", "p">>
T_DDP2 == <<"D", "D", "P", "2">>
T_gpu == <<"g", "p", "u">>
T_devices == <<"0", ",", "1">>
Accelerators ==
    {Null} \cup {Str_(t) : t \in {T_ddp, T_DDP, T_dp, T_Dp, T_ddp_spawn, T_ddp2, T_DDP2, T_gpu}}
\* gpus: 2, gpus: [0, 1], gpus: "0,1", gpus: null
GpuValues ==
    {Null, Str_(T_devices)} \cup {Int_(k) : k \in 0..MaxGpus}
    \cup {IntList([i \in 1..k |-> i - 1]) : k \in 1..MaxGpus}
TrainerDocs == Both(One(P_accelerator, Accelerators), Opt(One(P_gpus, GpuValues)))
LrDocs == One(P_lr, {Int_(k) : k \in 1..MaxLr})

GpuConfigs ==
    {d @@ NoTrainerConfig : d \in Both(Opt(TrainerDocs), Opt(LrDocs))}

\* update_config: the overrides of an NNCF run
UpdateConfigDocs ==
    {(P_update_config \o P_lr) :> Int_(MaxLr),
     (P_update_config \o P_image_size) :> IntList(<<MaxSize, 1>>),
     ((P_update_config \o P_max_epochs) :> Int_(1)) @@ ((P_update_config \o P_lr) :> Int_(1))}
NncfDocs ==
    Both(One(P_nncf_apply, {Bool_(TRUE), Bool_(FALSE)}),
         Both(One(P_sample_size, {Null, IntList(<<1, 3, MaxSize + 1, MaxSize + 1>>)}),
              Opt(UpdateConfigDocs)))
OptimizationDocs ==
    Both(One(P_compression_apply, {Bool_(TRUE), Bool_(FALSE)}), Opt(NncfDocs))

NncfConfigs ==
    {d @@ BaseConfig :
        d \in Both(One(P_image_size, Sizes),
                   Both(Opt(LrDocs), Opt(OptimizationDocs)))}

ModelDocs ==
    Both(One(P_name, {Str_(T_padim), Str_(T_stfpm), Str_(T_dfm)}),
         Both(Opt(One(P_weight_file, {Str_(T_local)})),
              Opt(One(P_normalization_method,
                      {Str_(T_none), Str_(T_cdf), Str_(T_min_max), Str_(T_CDF)}))))
ProjectDocs ==
    Both(One(P_log_images_to, {StrList(<<>>), StrList(<<T_local>>)}),
         Opt(One(P_save_to_csv, {Bool_(TRUE), Bool_(FALSE)})))
SwitchDocs ==
    Both(One(P_compression_apply, {Bool_(TRUE), Bool_(FALSE)}),
         Opt(One(P_nncf_apply, {Bool_(TRUE), Bool_(FALSE)})))

CallbackConfigs ==
    {d @@ BaseConfig : d \in Both(ModelDocs, Both(ProjectDocs, Opt(SwitchDocs)))}

(* ------------------------------ actions -------------------------------- *)
Start(docs) ==
    /\ config \in docs
    /\ arg = NoArg
    /\ mutated = NoConfig
    /\ callbacks = <<>>
    /\ op = "init"
    /\ exc = "none"
    /\ stage = "none"
    /\ strict \in BOOLEAN
    /\ cuda \in BOOLEAN
    /\ calls = 0

CanCall == exc = "none" /\ calls < MaxCalls

Call(name, r, ov) ==
    /\ arg' = [config |-> config, openvino |-> ov]
    /\ mutated' = r.cfg
    /\ config' = IF r.exc = "none" THEN r.ret ELSE r.cfg
    /\ exc' = r.exc
    /\ stage' = r.stage
    /\ op' = name
    /\ calls' = calls + 1
    /\ UNCHANGED <<strict, cuda>>

UpdateInputSizeConfig ==
    /\ CanCall
    /\ Call("update_input_size_config", update_input_size_config(config), FALSE)
    /\ UNCHANGED callbacks

UpdateMultiGpuTrainingConfig ==
    /\ CanCall
    /\ Call("update_multi_gpu_training_config",
            update_multi_gpu_training_config(config, strict), FALSE)
    /\ UNCHANGED callbacks

UpdateDeviceConfig ==
    /\ CanCall
    /\ \E openvino \in BOOLEAN :
          Call("update_device_config",
               update_device_config(config, openvino, cuda, strict), openvino)
    /\ UNCHANGED callbacks

UpdateNncfConfig ==
    /\ CanCall
    /\ Call("update_nncf_config", update_nncf_config(config), FALSE)
    /\ UNCHANGED callbacks

GetCallbacks ==
    /\ CanCall
    /\ arg' = [config |-> config, openvino |-> FALSE]
    /\ callbacks' = get_callbacks(config, strict).callbacks
    /\ exc' = get_callbacks(config, strict).exc
    /\ stage' = get_callbacks(config, strict).stage
    /\ op' = "get_callbacks"
    /\ calls' = calls + 1
    /\ UNCHANGED <<config, mutated, strict, cuda>>

InitInput == Start(InputSizeConfigs)
NextInput == UpdateInputSizeConfig
SpecInput == InitInput /\ [][NextInput]_vars

InitGpu == Start(GpuConfigs)
NextGpu == UpdateMultiGpuTrainingConfig \/ UpdateDeviceConfig
SpecGpu == InitGpu /\ [][NextGpu]_vars

InitNncf == Start(NncfConfigs)
NextNncf == UpdateNncfConfig
SpecNncf == InitNncf /\ [][NextNncf]_vars

InitCallbacks == Start(CallbackConfigs)
NextCallbacks == GetCallbacks
SpecCallbacks == InitCallbacks /\ [][NextCallbacks]_vars

(* ------------------------------ properties ------------------------------ *)
\* the pair (k, k) of an integer leaf
PairOf(v) == IntList(<<v.n, v.n>>)
TilingOn(cfg) == Has(cfg, P_tiling) /\ cfg[P_tiling_apply] = Bool_(TRUE)

\* C6: after update_input_size_config an integer dataset.image_size n is the
\* pair (n, n), any other image_size is unchanged, and model.input_size equals
\* dataset.image_size; with a tiling section whose apply is true an integer
\* tile_size t is (t, t), a null stride is the converted tile_size and any
\* other stride is kept; without a tiling section, or with apply false, the
\* tiling section is unchanged.
C6_InputSize ==
    op = "update_input_size_config" =>
        LET a == arg.config
        IN  /\ exc = "none"
            /\ config = mutated
            /\ IsInt(a[P_image_size]) => config[P_image_size] = PairOf(a[P_image_size])
            /\ ~IsInt(a[P_image_size]) => config[P_image_size] = a[P_image_size]
            /\ P_input_size \in DOMAIN config
            /\ config[P_input_size] = config[P_image_size]
            /\ TilingOn(a) =>
                  /\ IsInt(a[P_tile_size]) => config[P_tile_size] = PairOf(a[P_tile_size])
                  /\ IsNone(a[P_stride]) => config[P_stride] = config[P_tile_size]
                  /\ ~IsNone(a[P_stride]) => config[P_stride] = a[P_stride]
            /\ ~TilingOn(a) => Sub(config, P_tiling) = Sub(a, P_tiling)

\* C6: an integer image size, and an integer tile size with a null stride
\* under tiling.apply, have been converted
C6_Witness ==
    /\ op = "update_input_size_config"
    /\ IsInt(arg.config[P_image_size])
    /\ TilingOn(arg.config)
    /\ IsInt(arg.config[P_tile_size])
    /\ IsNone(arg.config[P_stride])
    /\ mutated[P_stride] = PairOf(arg.config[P_tile_size])
    /\ mutated[P_input_size] = PairOf(arg.config[P_image_size])

\* the number of devices the claim names: trainer.gpus when it is an
\* integer, its number of entries when it is a list, 1 without the key
Devices(cfg) ==
    IF ~Has(cfg, P_gpus) THEN 1
    ELSE IF IsInt(cfg[P_gpus]) THEN cfg[P_gpus].n
    ELSE Len(cfg[P_gpus].xs)
DevicesNamed(cfg) ==
    \/ ~Has(cfg, P_gpus)
    \/ IsInt(cfg[P_gpus])
    \/ cfg[P_gpus].kind = "list"

\* C3: when config.model has an lr key, update_multi_gpu_training_config
\* returns with model.lr multiplied by trainer.gpus (an integer), by the
\* number of its entries (a list) or by 1 (no gpus key); without an lr key
\* the model section is left unchanged.
C3_LrScaled ==
    op = "update_multi_gpu_training_config" =>
        LET a == arg.config
        IN  /\ (exc = "none" /\ Has(a, P_lr) /\ DevicesNamed(a)) =>
                  /\ P_lr \in DOMAIN config
                  /\ config[P_lr] = Int_(a[P_lr].n * Devices(a))
            /\ ~Has(a, P_lr) =>
                  /\ Sub(mutated, P_model) = Sub(a, P_model)
                  /\ Sub(config, P_model) = Sub(a, P_model)

\* C3: a learning rate has been scaled by the length of a list of two devices
C3_Witness ==
    /\ op = "update_multi_gpu_training_config"
    /\ exc = "none"
    /\ Has(arg.config, P_lr)
    /\ Has(arg.config, P_gpus)
    /\ arg.config[P_gpus].kind = "list"
    /\ Len(arg.config[P_gpus].xs) = 2
    /\ config[P_lr].n = 2 * arg.config[P_lr].n

\* C4: when update_multi_gpu_training_config returns, trainer.accelerator is
\* null or exactly the string "ddp".
C4_OnlyDdp ==
    (op = "update_multi_gpu_training_config" /\ exc = "none") =>
        config[P_accelerator] \in {Null, Str_(T_ddp)}

Supported == {T_ddp, T_dp, T_ddp_spawn, T_ddp2}
Unsupported(cfg) ==
    /\ Has(cfg, P_accelerator)
    /\ ~IsNone(cfg[P_accelerator])
    /\ Lower(cfg[P_accelerator].s) \notin Supported

\* C5: update_multi_gpu_training_config raises ValueError exactly when
\* trainer.accelerator is not null and its lower-cased value is none of ddp,
\* dp, ddp_spawn, ddp2; and then no field of the config has changed.
C5_ValueError ==
    op = "update_multi_gpu_training_config" =>
        /\ exc = "ValueError" <=> Unsupported(arg.config)
        /\ exc = "ValueError" => (mutated = arg.config /\ config = arg.config)

\* C5: an unsupported accelerator has been refused on a config that has a
\* learning rate and a number of devices
C5_Witness ==
    /\ op = "update_multi_gpu_training_config"
    /\ calls = 1
    /\ exc = "ValueError"
    /\ Read(arg.config, P_accelerator) = Str_(T_gpu)
    /\ Has(arg.config, P_lr)
    /\ Has(arg.config, P_gpus)

\* C8: after update_device_config(config, openvino) returns, config.openvino
\* is the openvino argument, and trainer.gpus is 0 whenever openvino is true
\* or CUDA is unavailable.
C8_DeviceConfig ==
    (op = "update_device_config" /\ exc = "none") =>
        /\ config[P_openvino] = Bool_(arg.openvino)
        /\ (arg.openvino \/ ~cuda) => config[P_gpus] = Int_(0)

\* the two entries of the image size, as the claim names them
HeightWidth(cfg) ==
    IF IsInt(cfg[P_image_size])
    THEN <<cfg[P_image_size].n, cfg[P_image_size].n>>
    ELSE <<cfg[P_image_size].xs[1], cfg[P_image_size].xs[2]>>
HasNncf(cfg) == Has(cfg, P_optimization) /\ Has(cfg, P_nncf)
Overrides(cfg) ==
    {q \in {SubSeq(r, 4, Len(r)) : r \in {r \in DOMAIN cfg : Len(r) > 3}} :
        (P_update_config \o q) \in DOMAIN cfg}
Merged(cfg) ==
    /\ HasNncf(cfg)
    /\ cfg[P_nncf_apply] = Bool_(TRUE)
    /\ Has(cfg, P_update_config)

\* C7: update_nncf_config sets optimization.nncf.input_info.sample_size to
\* [1, 3, H, W] whenever the config has an optimization section with an nncf
\* key, whatever nncf.apply is, and changes nothing else of it; it returns
\* that config overlaid with nncf.update_config, whose values win, exactly
\* when nncf.apply is true and update_config is present, and returns the
\* config itself otherwise; without the section or the key nothing changes.
C7_Nncf ==
    op = "update_nncf_config" =>
        LET a == arg.config
            hw == HeightWidth(a)
        IN  /\ exc = "none"
            /\ HasNncf(a) =>
                  /\ DOMAIN mutated = DOMAIN a \cup {P_sample_size}
                  /\ mutated[P_sample_size] = IntList(<<1, 3, hw[1], hw[2]>>)
                  /\ \A q \in DOMAIN a \ {P_sample_size} : mutated[q] = a[q]
            /\ ~HasNncf(a) => (mutated = a /\ config = a)
            /\ Merged(a) =>
                  /\ DOMAIN config = DOMAIN mutated \cup Overrides(a)
                  /\ \A q \in Overrides(a) : config[q] = a[P_update_config \o q]
                  /\ \A q \in DOMAIN mutated \ Overrides(a) : config[q] = mutated[q]
            /\ ~Merged(a) => config = mutated

\* C7: a run that does not apply NNCF has had its sample size set from a
\* pair of different sides, and nothing merged
C7_Witness ==
    /\ op = "update_nncf_config"
    /\ HasNncf(arg.config)
    /\ arg.config[P_nncf_apply] = Bool_(FALSE)
    /\ Has(arg.config, P_update_config)
    /\ arg.config[P_image_size] = IntList(<<1, 2>>)
    /\ arg.config[P_sample_size] = Null
    /\ config[P_sample_size] = IntList(<<1, 3, 1, 2>>)

\* the callbacks the claim lists, in its order, for a normalization callback
When(b, name) == IF b THEN <<name>> ELSE <<>>
IsTrue(cfg, p) == p \in DOMAIN cfg /\ cfg[p] = Bool_(TRUE)
Normalized(cfg) ==
    Has(cfg, P_normalization_method) /\ cfg[P_normalization_method] # Str_(T_none)
Expected(cfg, normalization) ==
    <<"ModelCheckpoint", "TimerCallback">>
    \o When(Has(cfg, P_weight_file), "LoadModelCallback")
    \o When(Normalized(cfg), normalization)
    \o When(cfg[P_log_images_to] # StrList(<<>>), "VisualizerCallback")
    \o When(Has(cfg, P_optimization) /\ IsTrue(cfg, P_nncf_apply), "NNCFCallback")
    \o When(Has(cfg, P_optimization) /\ IsTrue(cfg, P_compression_apply), "CompressModelCallback")
    \o When(IsTrue(cfg, P_save_to_csv), "SaveToCSVCallback")

\* C1: the list get_callbacks returns is ModelCheckpoint, TimerCallback and
\* then, in this order and each at most once: LoadModelCallback iff model has
\* weight_file; one normalization callback iff normalization_method is there
\* and is not "none"; VisualizerCallback iff log_images_to is not []; NNCF and
\* CompressModel callbacks iff the optimization section is there and their
\* apply is true; SaveToCSVCallback iff save_to_csv is there and true.
C1_Callbacks ==
    (op = "get_callbacks" /\ exc = "none") =>
        \E normalization \in {"CdfNormalizationCallback", "MinMaxNormalizationCallback"} :
            callbacks = Expected(arg.config, normalization)

\* C1: a list with every optional callback but NNCF's has been returned
C1_Witness ==
    /\ op = "get_callbacks"
    /\ exc = "none"
    /\ Has(arg.config, P_save_to_csv)
    /\ arg.config[P_save_to_csv] = Bool_(FALSE)
    /\ callbacks = <<"ModelCheckpoint", "TimerCallback", "LoadModelCallback",
                     "CdfNormalizationCallback", "VisualizerCallback",
                     "CompressModelCallback">>

Normalizations == {"CdfNormalizationCallback", "MinMaxNormalizationCallback"}
Added == {callbacks[i] : i \in DOMAIN callbacks} \cap Normalizations

\* C2: get_callbacks raises NotImplementedError for "cdf" with a model that
\* is neither padim nor stfpm and for "cdf" with nncf.apply true, ValueError
\* for a method that is none of "none", "cdf", "min_max"; in every other
\* case with an optimization section the normalization step raises nothing
\* and adds CdfNormalizationCallback alone for "cdf",
\* MinMaxNormalizationCallback alone for "min_max", and neither without the
\* key or for "none".
C2_Normalization ==
    op = "get_callbacks" =>
        LET a == arg.config
            has == Has(a, P_normalization_method)
            method == Read(a, P_normalization_method)
            cdf == has /\ method = Str_(T_cdf)
            foreign == a[P_name] \notin {Str_(T_padim), Str_(T_stfpm)}
            unknown == has /\ method \notin {Str_(T_none), Str_(T_cdf), Str_(T_min_max)}
        IN  /\ (cdf /\ foreign) => exc = "NotImplementedError"
            /\ (cdf /\ IsTrue(a, P_nncf_apply)) => exc = "NotImplementedError"
            /\ unknown => exc = "ValueError"
            /\ (/\ Has(a, P_optimization)
                /\ ~(cdf /\ foreign)
                /\ ~(cdf /\ IsTrue(a, P_nncf_apply))
                /\ ~unknown) =>
                  /\ stage # "normalization"
                  /\ cdf => Added = {"CdfNormalizationCallback"}
                  /\ (has /\ method = Str_(T_min_max)) => Added = {"MinMaxNormalizationCallback"}
                  /\ (~has \/ method = Str_(T_none)) => Added = {}

====
